---- MODULE Spec2Model ----
(***************************************************************************)
(* Model of the cleaning-schedule form application: the App component      *)
(* (src/App.tsx) and the Gemini extraction service (src/unnamed/part_000). *)
(*                                                                         *)
(* Strings are modelled as sequences of integer tokens.  A date string     *)
(* "YYYY-MM-DD" is <<y, m, d>>, a time string "HH:MM" is <<h, mi>>, other   *)
(* text is a sequence of opaque tokens, and fixed literals of the code     *)
(* have one negative token each.  Status message texts and error messages  *)
(* are sequences of string fragments.  A JavaScript object is a function   *)
(* whose DOMAIN is the set of its own keys, so a missing key reads as      *)
(* undefined.  An optional value (null, '' link) is a sequence of length   *)
(* 0 or 1.                                                                 *)
(***************************************************************************)
EXTENDS Integers, Sequences, FiniteSets, TLC

\* ------------------------------------------------------------------ bounds
\* User events (file selections, field edits, clicks, teardown) per behaviour.
MaxEvents == 4
\* Auto-submits per behaviour (each starts one asynchronous handler instance).
MaxSubmits == 2

\* ----------------------------------------------------------------- strings
EmptyStr == <<>>
StrT == <<-1>>            \* "T" of the template `${dateStr}T${timeStr}`
StrZ == <<-2>>            \* trailing "Z" of toISOString()
StrSep == <<-3>>          \* ' | '
StrTitlePrefix == <<-4>>  \* title prefix literal of line 96
StrTitleFallback == <<-5>> \* fallback title literal of line 96
StrAddressLabel == <<-6>> \* address label literal of line 97
StrNewline == <<-7>>      \* "\n"
StrNotesLabel == <<-8>>   \* notes label literal of line 97
StrUndefined == <<-9>>    \* String(undefined) = "undefined"
StrSlash == <<-10>>       \* "/" of the dates parameter

Fields == {"area", "name", "phone", "date", "startTime", "endTime", "address", "notes"}

\* JavaScript truthiness of data[f]: undefined and '' are falsy.
Truthy(data, f) == f \in DOMAIN data /\ data[f] # EmptyStr

\* `${data[f]}` in a template literal, and the string conversion of URLSearchParams.
ToStr(data, f) == IF f \in DOMAIN data THEN data[f] ELSE StrUndefined

\* ------------------------------------------------------------ Date (ECMAScript)
\* The years of the model's calendar.  Time values are minutes counted from
\* 00:00 UTC on 1 January of the first of them (the origin of getTime() is
\* shifted by a constant, which no result of the code depends on).
Years == 2024 .. 2026
FirstYear == CHOOSE y \in Years : \A z \in Years : y <= z

IsLeap(y) == (y % 4 = 0 /\ y % 100 # 0) \/ y % 400 = 0

DaysInMonth(y, m) ==
    IF m = 2 THEN (IF IsLeap(y) THEN 29 ELSE 28)
    ELSE IF m \in {4, 6, 9, 11} THEN 30 ELSE 31

DaysInYear(y) == IF IsLeap(y) THEN 366 ELSE 365

RECURSIVE DaysBeforeYear(_)
DaysBeforeYear(y) == IF y <= FirstYear THEN 0 ELSE DaysBeforeYear(y - 1) + DaysInYear(y - 1)

RECURSIVE DaysBeforeMonth(_, _)
DaysBeforeMonth(y, m) == IF m <= 1 THEN 0 ELSE DaysBeforeMonth(y, m - 1) + DaysInMonth(y, m - 1)

\* Minutes from the origin to the civil date-time.
CivilToMinutes(y, m, d, h, mi) ==
    (DaysBeforeYear(y) + DaysBeforeMonth(y, m) + (d - 1)) * 1440 + h * 60 + mi

\* A string of the date-time form YYYY-MM-DDTHH:MM with in-range components.
IsDateTimeString(s) ==
    /\ Len(s) = 6
    /\ s[4] = StrT[1]
    /\ s[1] \in Years
    /\ s[2] \in 1 .. 12
    /\ s[3] \in 1 .. DaysInMonth(s[1], s[2])
    /\ s[5] \in 0 .. 23
    /\ s[6] \in 0 .. 59

\* A parse that takes the date-time string as UTC (as date-only strings are).
DateGetTimeAsUTC(s, tz) == CivilToMinutes(s[1], s[2], s[3], s[5], s[6])

\* new Date(s).getTime() for a date-time string without offset: the string is
\* local time, tz is getTimezoneOffset() (UTC minus local, in minutes).
DateGetTime(s, tz) == CivilToMinutes(s[1], s[2], s[3], s[5], s[6]) + tz

\* Date.prototype.toISOString() followed by .replace(/-|:|\.\d{3}/g, '').
ToCompactISO(t) ==
    LET day == t \div 1440
        rem == t % 1440
        y == CHOOSE yy \in Years :
                 /\ DaysBeforeYear(yy) <= day
                 /\ day < DaysBeforeYear(yy) + DaysInYear(yy)
        yd == day - DaysBeforeYear(y)
        m == CHOOSE mm \in 1 .. 12 :
                 /\ DaysBeforeMonth(y, mm) <= yd
                 /\ yd < DaysBeforeMonth(y, mm) + DaysInMonth(y, mm)
        d == yd - DaysBeforeMonth(y, m) + 1
    IN  <<y, m, d>> \o StrT \o <<rem \div 60, rem % 60, 0>> \o StrZ

\* ------------------------------------------------- generateCalendarLink (App.tsx)
\* formatDateTime: the compact UTC timestamp, or null (<<>>).
formatDateTime(dateStr, timeStr, tz) ==
    LET s == dateStr \o StrT \o timeStr
    IN  IF IsDateTimeString(s) THEN <<ToCompactISO(DateGetTime(s, tz))>> ELSE <<>>

\* Array.prototype.join(' | ')
RECURSIVE Join(_)
Join(parts) ==
    IF Len(parts) = 0 THEN EmptyStr
    ELSE IF Len(parts) = 1 THEN parts[1]
    ELSE parts[1] \o StrSep \o Join(Tail(parts))

\* [area, name, phone] without the filter: join renders undefined as ''.
TitlePartsUnfiltered(data) ==
    LET part(f) == IF f \in DOMAIN data THEN <<data[f]>> ELSE <<EmptyStr>>
    IN  part("area") \o part("name") \o part("phone")

\* [area, name, phone].filter(p => p)
TitleParts(data) ==
    LET keep(f) == IF Truthy(data, f) THEN <<data[f]>> ELSE <<>>
    IN  keep("area") \o keep("name") \o keep("phone")

\* String.prototype.trim(): the only whitespace token of the model is "\n".
RECURSIVE Trim(_)
Trim(s) ==
    IF Len(s) = 0 THEN s
    ELSE IF s[1] = StrNewline[1] THEN Trim(Tail(s))
    ELSE IF s[Len(s)] = StrNewline[1] THEN Trim(SubSeq(s, 1, Len(s) - 1))
    ELSE s

eventTitle(data) ==
    LET titleParts == Join(TitleParts(data))
    IN  StrTitlePrefix \o (IF titleParts # EmptyStr THEN titleParts ELSE StrTitleFallback)

eventDetails(data) ==
    Trim(StrAddressLabel \o ToStr(data, "address") \o StrNewline
         \o (IF Truthy(data, "notes") THEN StrNotesLabel \o data["notes"] ELSE EmptyStr))

\* The URL: URLSearchParams encoding is injective, so the URL is the record of
\* its parameters.
finalUrl(data, start, end) ==
    [ base |-> "https://www.google.com/calendar/render",
      action |-> "TEMPLATE",
      text |-> eventTitle(data),
      dates |-> start \o StrSlash \o end,
      details |-> eventDetails(data),
      location |-> ToStr(data, "address"),
      ctz |-> "Asia/Taipei" ]

MsgRequired == <<"Error: cleaning date, start time and end time are required fields.">>
MsgInvalidFormat == <<"Error: the date/time format is invalid, check the date and time fields.">>
MsgManualOk == <<"Manual generation succeeded, the Google Calendar event page was opened.">>
MsgAutoOk == <<"AI recognition succeeded, the form was filled in and the calendar page opened.">>
MsgUploadFirst == <<"Error: upload an image containing the booking information first.">>

\* The validation of lines 72-75: is one of the three required fields falsy.
requiredMissing(data) ==
    ~Truthy(data, "date") \/ ~Truthy(data, "startTime") \/ ~Truthy(data, "endTime")

\* The success message of lines 113-117.
successMessage(isManual) ==
    IF isManual THEN [text |-> MsgManualOk, isError |-> FALSE]
    ELSE [text |-> MsgAutoOk, isError |-> FALSE]

\* A builder that tests the start timestamp alone (if (!start)): an end time
\* that does not parse is serialized as "null".
generateCalendarLinkStartOnly(data, isManual, tz) ==
    IF requiredMissing(data)
    THEN [messages |-> <<[text |-> MsgRequired, isError |-> TRUE]>>, link |-> <<>>]
    ELSE LET start == formatDateTime(data["date"], data["startTime"], tz)
             end == formatDateTime(data["date"], data["endTime"], tz)
         IN  IF start = <<>>
             THEN [messages |-> <<[text |-> MsgInvalidFormat, isError |-> TRUE]>>, link |-> <<>>]
             ELSE [messages |-> <<successMessage(isManual)>>,
                   link |-> <<finalUrl(data, start[1],
                                       IF end = <<>> THEN StrUndefined ELSE end[1])>>]

\* generateCalendarLink(data, isManual): its effects as a record.  messages
\* are the arguments of its setMessage calls, in order; link is <<>> when
\* neither setCalendarLink nor window.open is called, and <<finalUrl>> when
\* both are called with finalUrl.
generateCalendarLink(data, isManual, tz) ==
    IF requiredMissing(data)
    THEN [messages |-> <<[text |-> MsgRequired, isError |-> TRUE]>>, link |-> <<>>]
    ELSE LET start == formatDateTime(data["date"], data["startTime"], tz)
             end == formatDateTime(data["date"], data["endTime"], tz)
         IN  IF start = <<>> \/ end = <<>>
             THEN [messages |-> <<[text |-> MsgInvalidFormat, isError |-> TRUE]>>, link |-> <<>>]
             ELSE [messages |-> <<successMessage(isManual)>>,
                   link |-> <<finalUrl(data, start[1], end[1])>>]

\* ------------------------------------------- extractScheduleFromImages (service)
\* A thrown value: isError is `error instanceof Error`, message its fragments.
ErrNotConfigured == [isError |-> TRUE, message |-> <<"Gemini API key is not configured.">>]
ErrNoContent == [isError |-> TRUE, message |-> <<"AI did not return any content.">>]
ErrInvalidKey ==
    [isError |-> TRUE,
     message |-> <<"The provided Gemini API key is not valid. Please check your configuration.">>]
ErrGeneric ==
    [isError |-> TRUE,
     message |-> <<"Failed to process images with AI. The AI may be temporarily unavailable or the request was blocked.">>]
\* TypeError of `response.text.trim()` when text is undefined; SyntaxError of JSON.parse.
ErrTypeError == [isError |-> TRUE, message |-> <<"Cannot read properties of undefined (reading 'trim')">>]
ErrSyntaxError == [isError |-> TRUE, message |-> <<"Unexpected token in JSON">>]
\* A thrown value that is no Error (the ProgressEvent a FileReader rejects
\* with, a thrown string): it has no message.
NotAnError == [isError |-> FALSE, message |-> <<>>]
NoError == NotAnError

\* String.prototype.includes on a message of fragments.
Includes(msg, needle) == \E i \in DOMAIN msg : msg[i] = needle

\* The appointment records the remote model may return: JSON objects of the
\* response schema (type OBJECT, string properties, none of them required).
RecFull ==
    [area |-> <<101>>, name |-> <<102>>, phone |-> <<103>>, date |-> <<2025, 3, 1>>,
     startTime |-> <<5, 30>>, endTime |-> <<7, 0>>, address |-> <<104>>, notes |-> <<105>>]
RecFullBadTime == [RecFull EXCEPT !["endTime"] = <<25, 0>>]
RecNoTitle ==
    [date |-> <<2025, 12, 31>>, startTime |-> <<20, 0>>, endTime |-> <<22, 15>>,
     address |-> <<104>>, notes |-> EmptyStr]
RecNoDate == [area |-> <<101>>, name |-> EmptyStr, startTime |-> <<5, 30>>, endTime |-> <<7, 0>>]
Records == {RecFull, RecFullBadTime, RecNoTitle, RecNoDate}

\* response.text is a sequence of chunks: whitespace, a JSON document, or text
\* that is no JSON; <<>> as the optional stands for text being undefined.
WsChunk == [kind |-> "ws", value |-> <<>>]
JsonChunk(v) == [kind |-> "json", value |-> v]
GarbageChunk == [kind |-> "garbage", value |-> <<>>]
Bodies ==
    {<<>>, <<WsChunk>>, <<GarbageChunk>>, <<JsonChunk(RecFull), GarbageChunk>>}
    \cup {<<WsChunk, JsonChunk(v), WsChunk>> : v \in Records}

\* The ways the awaited generateContent call settles.
RemoteErrors ==
    { [isError |-> TRUE, message |-> <<"[400] ", "API key not valid", ". Please pass a valid API key.">>],
      [isError |-> TRUE, message |-> <<"[503] The model is overloaded.">>],
      NotAnError }
Outcomes ==
    {[kind |-> "reject", error |-> e, text |-> <<>>] : e \in RemoteErrors}
    \cup {[kind |-> "resolve", error |-> NoError, text |-> <<b>>] : b \in Bodies}
    \cup {[kind |-> "resolve", error |-> NoError, text |-> <<>>]}

\* String.prototype.trim() on a response text.
RECURSIVE TrimText(_)
TrimText(t) ==
    IF Len(t) = 0 THEN t
    ELSE IF t[1].kind = "ws" THEN TrimText(Tail(t))
    ELSE IF t[Len(t)].kind = "ws" THEN TrimText(SubSeq(t, 1, Len(t) - 1))
    ELSE t

\* JSON.parse accepts exactly one JSON document.
JsonParses(jsonText) == Len(jsonText) = 1 /\ jsonText[1].kind = "json"

\* What the try block (lines 40-57) throws for an outcome of the awaited call,
\* <<>> when it throws nothing.
tryThrows(outcome) ==
    IF outcome.kind = "reject" THEN <<outcome.error>>
    ELSE IF outcome.text = <<>> THEN <<ErrTypeError>>
    ELSE LET jsonText == TrimText(outcome.text[1])
         IN  IF Len(jsonText) = 0 THEN <<ErrNoContent>>
             ELSE IF ~JsonParses(jsonText) THEN <<ErrSyntaxError>>
             ELSE <<>>

\* A catch block that wraps every error into the generic one.
serviceCatchAlwaysGeneric(error) == ErrGeneric

\* The catch block (lines 59-65): the error it throws for the error it caught.
serviceCatch(error) ==
    IF error.isError /\ Includes(error.message, "API key not valid")
    THEN ErrInvalidKey
    ELSE ErrGeneric

\* extractScheduleFromImages from the settling of its await on: the record it
\* returns (ok) or the error it throws.
extractScheduleFromImages(outcome) ==
    LET thrown == tryThrows(outcome)
    IN  IF thrown = <<>>
        THEN [ok |-> TRUE, data |-> TrimText(outcome.text[1])[1].value, error |-> NoError]
        ELSE [ok |-> FALSE, data |-> <<>>, error |-> serviceCatch(thrown[1])]

\* A service without the guard.
apiKeyNeverMissing(key) == FALSE

\* The guard of lines 28-30.
apiKeyMissing(key) == key = EmptyStr

\* ------------------------------------------------------ handleProcessImages catch
MsgUnknown == <<"An unknown error occurred.">>
MsgFailPrefix == <<"Auto recognition failed: ">>
MsgFailSuffix == <<" Check the image clarity, or enter the data manually.">>

\* Lines 144-146: the status message for a caught error.
catchMessage(error) ==
    LET errorMessage == IF error.isError THEN error.message ELSE MsgUnknown
    IN  [text |-> MsgFailPrefix \o errorMessage \o MsgFailSuffix, isError |-> TRUE]

\* ------------------------------------------------------------------- state
VARIABLES
    formData,       \* useState: the appointment record of the form
    selectedFiles,  \* useState: the selected files (file ids)
    imagePreviews,  \* useState: the object URLs of the previews (handle ids)
    isLoading,      \* useState
    message,        \* useState: <<>> (null) or <<[text, isError]>>
    calendarLink,   \* useState: <<>> ('') or <<url>>
    mounted,        \* the App component is mounted
    apiKey,         \* process.env.API_KEY at module load ('' or undefined: EmptyStr)
    tzOffset,       \* the browser's getTimezoneOffset()
    inflight,       \* the pending handleProcessImages instances
    requests,       \* generateContent calls issued
    opened,         \* window.open calls made
    urls,           \* urls[h]: revokeObjectURL calls made on handle h
    events,         \* user events so far
    submits,        \* auto-submits started so far
    last            \* what the last step did

vars == <<formData, selectedFiles, imagePreviews, isLoading, message, calendarLink,
          mounted, apiKey, tzOffset, inflight, requests, opened, urls, events,
          submits, last>>

\* The React state of the component.
reactState == <<formData, selectedFiles, imagePreviews, isLoading, message, calendarLink>>

ApiKeys == {EmptyStr, <<900>>}
TzOffsets == {-480, 300}
FileSets == {<<>>, <<1>>, <<2, 3>>}

\* The values the form's inputs deliver: text inputs any text, date and time
\* inputs a well-formed value or ''.
InputValues(id) ==
    IF id = "date" THEN {EmptyStr, <<2025, 3, 1>>}
    ELSE IF id \in {"startTime", "endTime"} THEN {EmptyStr, <<23, 45>>}
    ELSE {EmptyStr, <<106>>}

initialFormData ==
    [area |-> EmptyStr, name |-> EmptyStr, phone |-> EmptyStr, date |-> EmptyStr,
     startTime |-> <<9, 0>>, endTime |-> <<10, 0>>, address |-> EmptyStr, notes |-> EmptyStr]

\* The record of a step: its operation, the number of setMessage calls with a
\* message it made, the builder call it made (<<[data, isManual]>>), the error
\* that reached the catch of handleProcessImages, and the settled outcome.
Did(op, sets, built, caught, outcome) ==
    [op |-> op, sets |-> sets, built |-> built, caught |-> caught, outcome |-> outcome]

Init ==
    /\ formData = initialFormData
    /\ selectedFiles = <<>>
    /\ imagePreviews = <<>>
    /\ isLoading = FALSE
    /\ message = <<>>
    /\ calendarLink = <<>>
    /\ mounted = TRUE
    /\ apiKey \in ApiKeys
    /\ tzOffset \in TzOffsets
    /\ inflight = <<>>
    /\ requests = 0
    /\ opened = 0
    /\ urls = <<>>
    /\ events = 0
    /\ submits = 0
    /\ last = Did("init", 0, <<>>, <<>>, <<>>)

\* ---------------------------------------------------------- preview handles
\* URL.revokeObjectURL on each handle of a list.
revokeAll(u, handles) ==
    [h \in DOMAIN u |->
        u[h] + Cardinality({i \in DOMAIN handles : handles[i] = h})]

\* files.map(file => URL.createObjectURL(file)): fresh handles.
createAll(u, files) == [i \in 1 .. Len(files) |-> Len(u) + i]

\* An effect without a cleanup.
effectCleanupNone(u, previews) == u

\* The cleanup of the effect of lines 26-31, for the previews it closed over.
effectCleanup(u, previews) == revokeAll(u, previews)

\* -------------------------------------------------------------- user events
\* A selection that clears the link and keeps the message.
fileChangeClearLinkOnly == calendarLink' = <<>> /\ UNCHANGED message

\* setMessage(null); setCalendarLink('') of lines 34-35.
fileChangeClear == message' = <<>> /\ calendarLink' = <<>>

handleFileChange(files) ==
    /\ mounted
    /\ events < MaxEvents
    /\ events' = events + 1
    /\ fileChangeClear
    /\ selectedFiles' = files
    /\ LET revoked == revokeAll(urls, imagePreviews)
           newPreviews == createAll(revoked, files)
           created == revoked \o [i \in 1 .. Len(files) |-> 0]
       IN  /\ imagePreviews' = newPreviews
           \* the re-render with the new array runs the previous effect's cleanup
           /\ urls' = effectCleanup(created, imagePreviews)
    /\ last' = Did("handleFileChange", 0, <<>>, <<>>, <<>>)
    /\ UNCHANGED <<formData, isLoading, mounted, apiKey, tzOffset, inflight, requests,
                   opened, submits>>

handleFormChange(id, value) ==
    /\ mounted
    /\ events < MaxEvents
    /\ events' = events + 1
    /\ formData' = [f \in DOMAIN formData \cup {id} |-> IF f = id THEN value ELSE formData[f]]
    /\ last' = Did("handleFormChange", 0, <<>>, <<>>, <<>>)
    /\ UNCHANGED <<selectedFiles, imagePreviews, isLoading, message, calendarLink, mounted,
                   apiKey, tzOffset, inflight, requests, opened, urls, submits>>

\* The message state after a list of setMessage calls with a message.
Latest(msg, calls) == IF calls = <<>> THEN msg ELSE <<calls[Len(calls)]>>

\* disabled={isLoading} of the two buttons.
processBtnAlwaysEnabled == FALSE
processBtnDisabled == isLoading
manualBtnDisabled == isLoading

\* onClick of manualBtn: generateCalendarLink(formData, true).
manualBtnClick ==
    /\ mounted
    /\ ~manualBtnDisabled
    /\ events < MaxEvents
    /\ events' = events + 1
    /\ LET g == generateCalendarLink(formData, TRUE, tzOffset)
       IN  /\ message' = Latest(message, g.messages)
           /\ calendarLink' = IF g.link # <<>> THEN g.link ELSE calendarLink
           /\ opened' = opened + Len(g.link)
           /\ last' = Did("manualBtnClick", Len(g.messages),
                          <<[data |-> formData, isManual |-> TRUE]>>, <<>>, <<>>)
    /\ UNCHANGED <<formData, selectedFiles, imagePreviews, isLoading, mounted, apiKey,
                   tzOffset, inflight, requests, urls, submits>>

\* A start of the submit that resets the message alone.
processClearMessageOnly == message' = <<>> /\ UNCHANGED calendarLink

\* setMessage(null); setCalendarLink('') of lines 127-128.
processClear == message' = <<>> /\ calendarLink' = <<>>

\* A handler without the check of the selection.
noFilesNeverChecked(files) == FALSE

\* selectedFiles.length === 0 of line 121.
noFilesSelected(files) == Len(files) = 0

\* onClick of processBtn: handleProcessImages up to its first await.
handleProcessImages ==
    /\ mounted
    /\ ~processBtnDisabled
    /\ events < MaxEvents
    /\ events' = events + 1
    /\ IF noFilesSelected(selectedFiles)
       THEN /\ message' = <<[text |-> MsgUploadFirst, isError |-> TRUE]>>
            /\ last' = Did("handleProcessImages/noFiles", 1, <<>>, <<>>, <<>>)
            /\ UNCHANGED <<isLoading, calendarLink, inflight, submits>>
       ELSE /\ submits < MaxSubmits
            /\ submits' = submits + 1
            /\ isLoading' = TRUE
            /\ processClear
            /\ inflight' = Append(inflight, [phase |-> "reading", files |-> selectedFiles])
            /\ last' = Did("handleProcessImages/start", 0, <<>>, <<>>, <<>>)
    /\ UNCHANGED <<formData, selectedFiles, imagePreviews, mounted, apiKey, tzOffset,
                   requests, opened, urls>>

\* Teardown of the component: the last effect's cleanup runs.
unmount ==
    /\ mounted
    /\ events < MaxEvents
    /\ events' = events + 1
    /\ mounted' = FALSE
    /\ urls' = effectCleanup(urls, imagePreviews)
    /\ last' = Did("unmount", 0, <<>>, <<>>, <<>>)
    /\ UNCHANGED <<formData, selectedFiles, imagePreviews, isLoading, message, calendarLink,
                   apiKey, tzOffset, inflight, requests, opened, submits>>

\* ------------------------------------------- the rest of handleProcessImages
Remove(seq, i) == SubSeq(seq, 1, i - 1) \o SubSeq(seq, i + 1, Len(seq))

\* A handler whose finally block does not reset the flag.
finallyKeepsLoading == isLoading

\* finally { setIsLoading(false) }
finallyIsLoading == FALSE

\* The argument of setFormData (line 141) and of generateCalendarLink (line
\* 142), for the form's record prev and the extracted record data.
\* setFormData(prev => ({...prev, ...extractedData})): a merge into the record.
extractedFormDataMerged(prev, data) ==
    [f \in DOMAIN prev \cup DOMAIN data |-> IF f \in DOMAIN data THEN data[f] ELSE prev[f]]
\* generateCalendarLink(formData, false): the builder called on the form state.
builderDataStale(prev, data) == prev

extractedFormData(prev, data) == data
builderData(prev, data) == data

\* Lines 141-149 for the result r of the awaits: the state the handler's
\* setters leave, the window.open calls and the step's record.  The setters
\* of an unmounted component change nothing.
settle(op, r, outcome) ==
    LET data == builderData(formData, r.data)
        g == generateCalendarLink(data, FALSE, tzOffset)
        msgs == IF r.ok THEN g.messages ELSE <<catchMessage(r.error)>>
        link == IF r.ok THEN g.link ELSE <<>>
    IN  /\ opened' = opened + Len(link)
        /\ last' = Did(op, Len(msgs),
                       IF r.ok THEN <<[data |-> data, isManual |-> FALSE]>> ELSE <<>>,
                       IF r.ok THEN <<>> ELSE <<r.error>>, outcome)
        /\ IF mounted
           THEN /\ formData' = IF r.ok THEN extractedFormData(formData, r.data) ELSE formData
                /\ message' = Latest(message, msgs)
                /\ calendarLink' = IF link # <<>> THEN link ELSE calendarLink
                /\ isLoading' = finallyIsLoading
           ELSE UNCHANGED <<formData, message, calendarLink, isLoading>>

Failed(error) == [ok |-> FALSE, data |-> <<>>, error |-> error]

\* await Promise.all(imagePartsPromises) settles for instance i.  When it
\* rejects the catch runs; when it resolves extractScheduleFromImages is called
\* and runs to its await of generateContent, or throws for a missing key.
fileReadsSettle(i, readOk) ==
    /\ i \in DOMAIN inflight
    /\ inflight[i].phase = "reading"
    /\ IF ~readOk
       THEN /\ settle("fileReadsSettle/rejected", Failed(NotAnError), <<>>)
            /\ inflight' = Remove(inflight, i)
            /\ UNCHANGED requests
       ELSE IF apiKeyMissing(apiKey)
       THEN /\ settle("fileReadsSettle/noKey", Failed(ErrNotConfigured), <<>>)
            /\ inflight' = Remove(inflight, i)
            /\ UNCHANGED requests
       ELSE /\ requests' = requests + 1
            /\ inflight' = [inflight EXCEPT ![i].phase = "calling"]
            /\ last' = Did("fileReadsSettle/request", 0, <<>>, <<>>, <<>>)
            /\ UNCHANGED <<formData, message, calendarLink, isLoading, opened>>
    /\ UNCHANGED <<selectedFiles, imagePreviews, mounted, apiKey, tzOffset, urls, events,
                   submits>>

\* await ai.models.generateContent(...) settles for instance i.
generateContentSettle(i, outcome) ==
    /\ i \in DOMAIN inflight
    /\ inflight[i].phase = "calling"
    /\ settle("generateContentSettle", extractScheduleFromImages(outcome), <<outcome>>)
    /\ inflight' = Remove(inflight, i)
    /\ UNCHANGED <<selectedFiles, imagePreviews, mounted, apiKey, tzOffset, requests, urls,
                   events, submits>>

\* --------------------------------------------------------------- specification
FileChange == \E files \in FileSets : handleFileChange(files)
FormChange == \E id \in Fields : \E value \in InputValues(id) : handleFormChange(id, value)
ManualClick == manualBtnClick
ProcessClick == handleProcessImages
Unmount == unmount
FileReads == \E i \in DOMAIN inflight : \E readOk \in BOOLEAN : fileReadsSettle(i, readOk)
RemoteSettle == \E i \in DOMAIN inflight : \E outcome \in Outcomes : generateContentSettle(i, outcome)

Next ==
    \/ FileChange
    \/ FormChange
    \/ ManualClick
    \/ ProcessClick
    \/ Unmount
    \/ FileReads
    \/ RemoteSettle

Spec == Init /\ [][Next]_vars

\* ------------------------------------------- the link builder on its own inputs
\* The builder is a function of the record and of the zone offset alone: this
\* specification starts the form from any record of a grid of schedules and
\* title fields, in any of a range of zones, and submits it manually.
BuilderTzOffsets == {-720, -480, 0, 300, 720}
BuilderDates == {<<2024, 2, 28>>, <<2025, 3, 1>>, <<2025, 12, 31>>}
BuilderTimes == {<<0, 0>>, <<9, 0>>, <<23, 45>>}
BuilderRecords ==
    LET full == { [area |-> a, name |-> n, phone |-> p, date |-> d, startTime |-> st,
                   endTime |-> en, address |-> <<104>>, notes |-> EmptyStr] :
                    a \in {EmptyStr, <<101, 111>>}, n \in {EmptyStr, <<102>>},
                    p \in {EmptyStr, <<103>>}, d \in BuilderDates,
                    st \in BuilderTimes, en \in BuilderTimes }
    IN  full \cup { [f \in DOMAIN r \ {"name"} |-> r[f]] : r \in {x \in full : x["name"] = EmptyStr} }

InitBuilder ==
    /\ formData \in BuilderRecords
    /\ tzOffset \in BuilderTzOffsets
    /\ apiKey = <<900>>
    /\ selectedFiles = <<>>
    /\ imagePreviews = <<>>
    /\ isLoading = FALSE
    /\ message = <<>>
    /\ calendarLink = <<>>
    /\ mounted = TRUE
    /\ inflight = <<>>
    /\ requests = 0
    /\ opened = 0
    /\ urls = <<>>
    /\ events = 0
    /\ submits = 0
    /\ last = Did("init", 0, <<>>, <<>>, <<>>)

SpecBuilder == InitBuilder /\ [][ManualClick]_vars

\* ------------------------------------------------------------------ properties
\* A step ends a handleProcessImages instance (its finally block has run).
HandlerEnds == Len(inflight') < Len(inflight)

\* The status texts of the catch block: the prefix, an error message, the suffix.
IsFailureText(t) ==
    /\ Len(t) >= 3
    /\ t[1] = MsgFailPrefix[1]
    /\ t[Len(t)] = MsgFailSuffix[1]

\* C1: an auto-submit with a selected file takes the controller from Idle to
\* Extracting, and the step in which the file reads and the remote call have
\* finished, successfully or not, takes it back to Idle, having set exactly
\* one status message: the success text, a schedule-validation error, or an
\* extraction-failure text.
C1_SubmissionLifecycle ==
    [][ /\ (ProcessClick /\ Len(selectedFiles) > 0
              => ~isLoading /\ isLoading' /\ Len(inflight') = Len(inflight) + 1)
        /\ (HandlerEnds /\ mounted
              => /\ isLoading /\ ~isLoading'
                 /\ last'.sets = 1
                 /\ message' # <<>>
                 /\ \/ message'[1] = [text |-> MsgAutoOk, isError |-> FALSE]
                    \/ message'[1] = [text |-> MsgRequired, isError |-> TRUE]
                    \/ message'[1] = [text |-> MsgInvalidFormat, isError |-> TRUE]
                    \/ message'[1].isError /\ IsFailureText(message'[1].text))
      ]_vars

C1_Witness ==
    /\ mounted
    /\ last.op = "generateContentSettle"
    /\ last.caught # <<>>
    /\ last.sets = 1
    /\ ~isLoading
    /\ inflight = <<>>
    /\ message # <<>>

\* C2: at most one extraction is in flight, and while one is in flight both
\* trigger buttons are disabled, whatever file selections and field edits
\* interleave with it.
C2_SingleFlight ==
    /\ Len(inflight) <= 1
    /\ (inflight # <<>> /\ mounted => processBtnDisabled /\ manualBtnDisabled)
    /\ requests <= submits

C2_Witness ==
    /\ Len(inflight) = 1
    /\ submits = 2
    /\ last.op \in {"handleFormChange", "handleFileChange"}
    /\ processBtnDisabled

\* The record d does not pass the validation of the builder: a required field
\* is empty or missing, or date and time do not combine into a date-time.
InvalidSchedule(d) ==
    \/ requiredMissing(d)
    \/ ~IsDateTimeString(d["date"] \o StrT \o d["startTime"])
    \/ ~IsDateTimeString(d["date"] \o StrT \o d["endTime"])

ScheduleErrors ==
    {[text |-> MsgRequired, isError |-> TRUE], [text |-> MsgInvalidFormat, isError |-> TRUE]}

\* C3 as stated: after a file selection, an auto-submit (with a selected file)
\* or a manual submit has begun, the message and the link shown are empty or
\* the step's own; none is left over from an earlier action.
C3_ClearedOnEveryAction ==
    [][ (FileChange \/ (ProcessClick /\ Len(selectedFiles) > 0) \/ ManualClick)
          => /\ (message' # <<>> => last'.sets = 1)
             /\ (calendarLink' # <<>> => opened' = opened + 1) ]_vars

\* C3 as amended: a file selection and an auto-submit with a selected file
\* clear the message and the link.  A manual submit replaces the message by
\* its own and leaves the link as it was, except that a manual submit that
\* succeeds replaces it by the link it opens.
C3_ClearedOnSelectionAndSubmit ==
    [][ /\ (FileChange \/ (ProcessClick /\ Len(selectedFiles) > 0)
              => message' = <<>> /\ calendarLink' = <<>>)
        /\ (ManualClick
              => /\ message' # <<>>
                 /\ last'.sets = 1
                 /\ IF InvalidSchedule(formData)
                    THEN message'[1] \in ScheduleErrors /\ calendarLink' = calendarLink
                    ELSE /\ message'[1] = [text |-> MsgManualOk, isError |-> FALSE]
                         /\ calendarLink' # <<>>
                         /\ opened' = opened + 1)
      ]_vars

C3_Witness ==
    /\ last.op = "manualBtnClick"
    /\ message # <<>>
    /\ message[1].isError
    /\ calendarLink # <<>>

\* C4: a builder call with date, startTime or endTime empty or not parseable
\* sets one of the invalid-schedule messages, the same one for either flag,
\* leaves calendarLink as it was and opens no page.
C4_InvalidScheduleFrame ==
    [][ \A i \in DOMAIN last'.built :
          InvalidSchedule(last'.built[i].data)
            => /\ opened' = opened
               /\ generateCalendarLink(last'.built[i].data, TRUE, tzOffset)
                    = generateCalendarLink(last'.built[i].data, FALSE, tzOffset)
               /\ mounted => /\ calendarLink' = calendarLink
                             /\ message' # <<>>
                             /\ message'[1] \in ScheduleErrors
                             /\ last'.sets = 1
      ]_vars

C4_Witness ==
    /\ mounted
    /\ last.op = "generateContentSettle"
    /\ last.built # <<>>
    /\ ~last.built[1].isManual
    /\ ~requiredMissing(last.built[1].data)
    /\ InvalidSchedule(last.built[1].data)
    /\ message = <<[text |-> MsgInvalidFormat, isError |-> TRUE]>>

\* The awaited call resolved with a text that trims to one JSON document, and
\* the record that document denotes.
YieldsRecord(o) == o.kind = "resolve" /\ o.text # <<>> /\ JsonParses(TrimText(o.text[1]))
ParsedRecord(o) == TrimText(o.text[1])[1].value

\* All eight fields of the record are present and non-empty.
Populated(v) == DOMAIN v = Fields /\ \A f \in Fields : v[f] # EmptyStr

C6_RecordReplacedThenBuilt ==
    [][ RemoteSettle /\ mounted
          => \A i \in DOMAIN last'.outcome :
               LET o == last'.outcome[i]
                   v == ParsedRecord(o)
               IN  YieldsRecord(o) /\ Populated(v)
                     => /\ formData' = v
                        /\ last'.built = <<[data |-> v, isManual |-> FALSE]>>
                        /\ IF InvalidSchedule(v)
                           THEN message' = <<[text |-> MsgInvalidFormat, isError |-> TRUE]>>
                           ELSE /\ message' = <<[text |-> MsgAutoOk, isError |-> FALSE]>>
                                /\ calendarLink' # <<>>
                                /\ calendarLink'[1].text = eventTitle(v)
                                /\ calendarLink'[1].details = eventDetails(v)
                                /\ calendarLink'[1].location = v["address"]
                                /\ calendarLink'[1].dates =
                                     formatDateTime(v["date"], v["startTime"], tzOffset)[1]
                                       \o StrSlash
                                       \o formatDateTime(v["date"], v["endTime"], tzOffset)[1]
                                /\ opened' = opened + 1
      ]_vars

C6_Witness ==
    /\ mounted
    /\ last.op = "generateContentSettle"
    /\ YieldsRecord(last.outcome[1])
    /\ Populated(ParsedRecord(last.outcome[1]))
    /\ formData = RecFull
    /\ formData["startTime"] # initialFormData["startTime"]
    /\ calendarLink # <<>>
    /\ calendarLink[1].text = eventTitle(RecFull)

\* C7: in every reachable state all eight fields of the form record are
\* defined strings (a field the response omits reads as the empty string).
C7_AllFieldsDefined == \A f \in Fields : f \in DOMAIN formData

\* C8: when the remote call resolves with a text that is empty after trimming
\* or does not parse, the error that reaches the caller is the empty-response
\* error, not the generic extraction failure.
C8_EmptyResponseReachesCaller ==
    \A i \in DOMAIN last.outcome :
        LET o == last.outcome[i]
        IN  o.kind = "resolve" /\ o.text # <<>> /\ ~JsonParses(TrimText(o.text[1]))
              => last.caught = <<ErrNoContent>> /\ ErrNoContent # ErrGeneric

\* C9: a remote failure whose message contains "API key not valid" reaches
\* the user as the invalid-key text, every other remote failure as the
\* generic text; the two differ, and either is caught by the handler, which
\* sets one status message and ends.
C9_RemoteFailureTexts ==
    \A i \in DOMAIN last.outcome :
        LET o == last.outcome[i]
            expected == IF o.error.isError /\ Includes(o.error.message, "API key not valid")
                        THEN ErrInvalidKey ELSE ErrGeneric
        IN  o.kind = "reject"
              => /\ last.caught = <<expected>>
                 /\ last.sets = 1
                 /\ ErrInvalidKey.message # ErrGeneric.message
                 /\ inflight = <<>>
                 /\ mounted
                      => /\ ~isLoading
                         /\ message = <<[text |-> MsgFailPrefix \o expected.message \o MsgFailSuffix,
                                         isError |-> TRUE]>>

C9_Witness ==
    /\ mounted
    /\ last.op = "generateContentSettle"
    /\ last.outcome[1].kind = "reject"
    /\ Includes(last.outcome[1].error.message, "API key not valid")
    /\ message # <<>>
    /\ Includes(message[1].text, ErrInvalidKey.message[1])

MsgNotConfigured ==
    [text |-> MsgFailPrefix \o ErrNotConfigured.message \o MsgFailSuffix, isError |-> TRUE]
MsgUnknownFailure ==
    [text |-> MsgFailPrefix \o MsgUnknown \o MsgFailSuffix, isError |-> TRUE]

\* C10 as stated: with the credential absent, every auto-submit with files
\* ends in Idle with the missing-credential error shown and no request issued.
C10_EverySubmitMissingCredential ==
    apiKey = EmptyStr /\ mounted /\ submits > 0 /\ inflight = <<>>
    /\ last.op \in {"fileReadsSettle/rejected", "fileReadsSettle/noKey", "generateContentSettle"}
      => requests = 0 /\ ~isLoading /\ message = <<MsgNotConfigured>>

\* C10 as amended: with the credential absent no request is ever issued and
\* every auto-submit with files returns to Idle with an error shown: the
\* missing-credential error when the file reads succeed, the unknown-error
\* failure text when a file read fails.  A manual submit with a valid
\* schedule still generates and opens the link.  The missing-credential error
\* appears only in the step that attempts the extraction.
C10_MissingCredential ==
    /\ [](apiKey = EmptyStr
            => requests = 0 /\ \A i \in DOMAIN inflight : inflight[i].phase = "reading")
    /\ [][ /\ (message' = <<MsgNotConfigured>> /\ message # <<MsgNotConfigured>>
                 => apiKey = EmptyStr /\ \E i \in DOMAIN inflight : fileReadsSettle(i, TRUE))
           /\ (apiKey = EmptyStr /\ mounted /\ (\E i \in DOMAIN inflight : fileReadsSettle(i, TRUE))
                 => ~isLoading' /\ inflight' = <<>> /\ message' = <<MsgNotConfigured>>)
           /\ (apiKey = EmptyStr /\ mounted /\ (\E i \in DOMAIN inflight : fileReadsSettle(i, FALSE))
                 => ~isLoading' /\ inflight' = <<>> /\ message' = <<MsgUnknownFailure>>)
           /\ (apiKey = EmptyStr /\ ManualClick /\ ~InvalidSchedule(formData)
                 => /\ calendarLink' # <<>>
                    /\ opened' = opened + 1
                    /\ message' = <<[text |-> MsgManualOk, isError |-> FALSE]>>)
         ]_vars

C10_Witness ==
    /\ apiKey = EmptyStr
    /\ mounted
    /\ last.op = "fileReadsSettle/noKey"
    /\ message = <<MsgNotConfigured>>
    /\ ~isLoading
    /\ requests = 0
    /\ opened > 0

\* The handles of a list of previews.
Handles(previews) == {previews[i] : i \in DOMAIN previews}

\* C11: a file selection releases each preview handle of the prior selection
\* exactly once (the release calls it causes number the prior previews), and
\* releases no other handle.
C11_PriorHandlesReleasedOnce ==
    [][ FileChange
          => \A h \in DOMAIN urls :
               urls'[h] = urls[h] + (IF h \in Handles(imagePreviews) THEN 1 ELSE 0) ]_vars

\* The minutes of a local date and time of day, and of a compact UTC timestamp.
LocalMinutes(date, time) == CivilToMinutes(date[1], date[2], date[3], time[1], time[2])
CompactMinutes(c) == CivilToMinutes(c[1], c[2], c[3], c[5], c[6])
TimeOfDay(time) == time[1] * 60 + time[2]

\* A compact UTC timestamp YYYYMMDDTHHMMSSZ with in-range components.
IsCompactUTC(c) ==
    /\ Len(c) = 8
    /\ c[4] = StrT[1]
    /\ c[8] = StrZ[1]
    /\ c[2] \in 1 .. 12
    /\ c[3] \in 1 .. DaysInMonth(c[1], c[2])
    /\ c[5] \in 0 .. 23
    /\ c[6] \in 0 .. 59
    /\ c[7] = 0

\* The form holds a valid schedule with startTime before endTime.
OrderedSchedule(d) ==
    /\ ~InvalidSchedule(d)
    /\ TimeOfDay(d["startTime"]) < TimeOfDay(d["endTime"])

\* The two timestamps of a dates parameter.
DatesStart(dates) == SubSeq(dates, 1, 8)
DatesEnd(dates) == SubSeq(dates, 10, 17)

\* C12 as stated: for a valid schedule with startTime before endTime the
\* dates parameter is <start>/<end> in UTC basic format, the two timestamps
\* have the same date component and differ by endTime - startTime, in every
\* zone.
C12_SameDateInEveryZone ==
    [][ ManualClick /\ OrderedSchedule(formData)
          => /\ calendarLink' # <<>>
             /\ LET dates == calendarLink'[1].dates
                    S == DatesStart(dates)
                    E == DatesEnd(dates)
                IN  /\ Len(dates) = 17 /\ dates[9] = StrSlash[1]
                    /\ IsCompactUTC(S) /\ IsCompactUTC(E)
                    /\ SubSeq(S, 1, 3) = SubSeq(E, 1, 3)
                    /\ CompactMinutes(E) - CompactMinutes(S)
                         = TimeOfDay(formData["endTime"]) - TimeOfDay(formData["startTime"])
      ]_vars

\* C12 as amended: the dates parameter is <start>/<end> in UTC basic format,
\* each timestamp is the local date-time shifted by the zone's offset, so the
\* two differ by endTime - startTime; their date components are equal exactly
\* when the shift does not put UTC midnight between them.
C12_UtcRange ==
    [][ ManualClick /\ OrderedSchedule(formData)
          => /\ calendarLink' # <<>>
             /\ LET dates == calendarLink'[1].dates
                    S == DatesStart(dates)
                    E == DatesEnd(dates)
                    s == LocalMinutes(formData["date"], formData["startTime"]) + tzOffset
                    e == LocalMinutes(formData["date"], formData["endTime"]) + tzOffset
                IN  /\ Len(dates) = 17 /\ dates[9] = StrSlash[1]
                    /\ IsCompactUTC(S) /\ IsCompactUTC(E)
                    /\ CompactMinutes(S) = s
                    /\ CompactMinutes(E) = e
                    /\ CompactMinutes(E) - CompactMinutes(S)
                         = TimeOfDay(formData["endTime"]) - TimeOfDay(formData["startTime"])
                    /\ (SubSeq(S, 1, 3) = SubSeq(E, 1, 3)) <=> (s \div 1440 = e \div 1440)
      ]_vars

C12_Witness ==
    /\ last.op = "manualBtnClick"
    /\ OrderedSchedule(formData)
    /\ tzOffset # 0
    /\ calendarLink # <<>>
    /\ SubSeq(DatesStart(calendarLink[1].dates), 1, 3) # SubSeq(DatesEnd(calendarLink[1].dates), 1, 3)
    /\ SubSeq(DatesStart(calendarLink[1].dates), 1, 3) # formData["date"]

\* The value of a title field, '' when the record lacks it.
TitleField(d, f) == IF f \in DOMAIN d THEN d[f] ELSE EmptyStr

\* The positions of the separator in a title.
SepPositions(t) == {i \in DOMAIN t : t[i] = StrSep[1]}

\* No leading, trailing or doubled separator.
CleanSeparators(t) ==
    /\ 1 \notin SepPositions(t)
    /\ Len(t) \notin SepPositions(t)
    /\ \A i \in SepPositions(t) : i + 1 \notin SepPositions(t)

\* The title the claim describes for a record: the fields in the order area,
\* name, phone, a separator before name exactly when area and name are both
\* non-empty, a separator before phone exactly when phone and one of the
\* fields before it are non-empty; the fallback literal when all are empty.
DescribedTitle(d) ==
    LET a == TitleField(d, "area")
        n == TitleField(d, "name")
        p == TitleField(d, "phone")
        s1 == IF a # EmptyStr /\ n # EmptyStr THEN StrSep ELSE EmptyStr
        s2 == IF p # EmptyStr /\ (a # EmptyStr \/ n # EmptyStr) THEN StrSep ELSE EmptyStr
    IN  IF a = EmptyStr /\ n = EmptyStr /\ p = EmptyStr THEN StrTitleFallback
        ELSE a \o s1 \o n \o s2 \o p

\* C13: the title of a generated link is the title prefix followed by the
\* non-empty ones of area, name and phone in that order joined by the
\* separator, with no leading, trailing or doubled separator, and by the
\* fallback literal when all three are empty.
C13_TitleComposition ==
    [][ ManualClick /\ ~InvalidSchedule(formData)
          => /\ calendarLink' # <<>>
             /\ LET title == calendarLink'[1].text
                    body == SubSeq(title, Len(StrTitlePrefix) + 1, Len(title))
                IN  /\ SubSeq(title, 1, Len(StrTitlePrefix)) = StrTitlePrefix
                    /\ body = DescribedTitle(formData)
                    /\ CleanSeparators(body)
                    /\ Cardinality(SepPositions(body))
                         = (IF Cardinality({f \in {"area", "name", "phone"} :
                                              TitleField(formData, f) # EmptyStr}) = 0 THEN 0
                            ELSE Cardinality({f \in {"area", "name", "phone"} :
                                                TitleField(formData, f) # EmptyStr}) - 1)
      ]_vars

C13_Witness ==
    /\ last.op = "manualBtnClick"
    /\ calendarLink # <<>>
    /\ TitleField(formData, "area") # EmptyStr
    /\ "name" \notin DOMAIN formData
    /\ TitleField(formData, "phone") # EmptyStr
    /\ calendarLink[1].text = StrTitlePrefix \o formData["area"] \o StrSep \o formData["phone"]

\* A created handle has been released.
Released(h) == urls[h] >= 1

\* C14: every created handle that is not among the displayed previews has
\* been released; while the component is mounted no displayed preview handle
\* has been released; after teardown every created handle has been released.
C14_NoHandleLeak ==
    /\ \A h \in DOMAIN urls : h \notin Handles(imagePreviews) => Released(h)
    /\ mounted => \A h \in Handles(imagePreviews) : h \in DOMAIN urls /\ ~Released(h)
    /\ ~mounted => \A h \in DOMAIN urls : Released(h)

C14_Witness ==
    /\ ~mounted
    /\ last.op = "unmount"
    /\ Len(urls) >= 3
    /\ Len(imagePreviews) = 2
    /\ \A h \in DOMAIN urls : Released(h)

\* C15: when an extraction completes successfully in the mounted component
\* and populates the form, the message and the link, the files its request
\* was issued for are the files selected at completion time.
C15_ResultsOfSelectedFiles ==
    [][ /\ RemoteSettle
        /\ mounted
        /\ last'.built # <<>>
        /\ formData' = last'.built[1].data
        /\ calendarLink' # <<>>
        /\ message' = <<[text |-> MsgAutoOk, isError |-> FALSE]>>
        => \A i \in DOMAIN inflight : inflight[i].files = selectedFiles
      ]_vars

\* The status message is one of the two success messages.
SuccessShown(msg) ==
    /\ msg # <<>>
    /\ msg[1] \in {[text |-> MsgManualOk, isError |-> FALSE],
                   [text |-> MsgAutoOk, isError |-> FALSE]}

\* C16: a success message is never shown with an empty link, and a step that
\* leaves a success message with a message or a link other than those it
\* found is a step that built a link: the link shown is the URL it built from
\* its record, and the message is the success message of its kind of submit.
C16_SuccessHasItsLink ==
    /\ [](SuccessShown(message) => calendarLink # <<>>)
    /\ [][ SuccessShown(message') /\ (message' # message \/ calendarLink' # calendarLink)
             => /\ last'.built # <<>>
                /\ opened' = opened + 1
                /\ LET b == last'.built[1]
                       start == formatDateTime(b.data["date"], b.data["startTime"], tzOffset)
                       end == formatDateTime(b.data["date"], b.data["endTime"], tzOffset)
                   IN  /\ ~InvalidSchedule(b.data)
                       /\ calendarLink' = <<finalUrl(b.data, start[1], end[1])>>
                       /\ message' = <<[text |-> IF b.isManual THEN MsgManualOk ELSE MsgAutoOk,
                                        isError |-> FALSE]>>
         ]_vars

C16_Witness ==
    /\ SuccessShown(message)
    /\ message[1].text = MsgManualOk
    /\ calendarLink # <<>>
    /\ last.op = "manualBtnClick"
    /\ last.built # <<>>
    /\ last.built[1].data # initialFormData

\* C17: an auto-submit with no file selected sets the 'upload an image first'
\* error message and nothing else: the loading flag stays off, no call is
\* started, no request is issued, no page is opened, and the form record and
\* the generated link are unchanged.
C17_NoFilesOnlyMessage ==
    [][ ProcessClick /\ Len(selectedFiles) = 0
          => /\ message' = <<[text |-> MsgUploadFirst, isError |-> TRUE]>>
             /\ last'.sets = 1
             /\ ~isLoading'
             /\ UNCHANGED <<formData, calendarLink, isLoading, inflight, requests, opened,
                            selectedFiles, imagePreviews, urls, submits>>
      ]_vars

C17_Witness ==
    /\ last.op = "handleProcessImages/noFiles"
    /\ message = <<[text |-> MsgUploadFirst, isError |-> TRUE]>>
    /\ calendarLink # <<>>
    /\ formData # initialFormData
    /\ ~isLoading
    /\ inflight = <<>>
====
